---- MODULE Spec2Model ----
(***************************************************************************)
(* Model of the reactive field and validation engine of formengine:        *)
(*   - validatorsResolver.tsx: byPriority, parse, validatorsResolver       *)
(*   - SimpleField (src/unnamed/part_001): the reactive field container    *)
(* Four specifications share the module: SpecResolver drives the validator *)
(* resolver; Spec, SpecLifecycle and SpecValidation drive one SimpleField   *)
(* instance through its value operations, its effects and teardown, and its *)
(* validation calls.                                                        *)
(***************************************************************************)
EXTENDS Integers, Sequences, FiniteSets, TLC

VARIABLES
  \* ---- validator resolver (validatorsResolver.tsx) ----
  engine,            \* which Array.prototype.sort implementation runs the build
  schema,            \* BoundValueSchema: [present, validations]
  validators,        \* result of parse(): [state, list]
  rpc,               \* position of the resolver / of the resolved async function
  idx,               \* index of the rule the for-of loop is at
  validationResults, \* the list built by one evaluation
  returned,          \* what the last finished evaluation returned: [kind, list]
  formDataA,         \* the form data field the validateWhen predicate reads
  pending,           \* the promise the evaluation awaits: "none" or its outcome
  invoked,           \* history: indices of the validators invoked in this evaluation
  lastArgs,          \* history: args object handed to each invoked validator
  ruleResults,       \* history: the known result of each invoked validator
  turnData           \* history: the form data getFormData() gave at each turn of the loop

VARIABLES
  \* ---- SimpleField (src/unnamed/part_001) ----
  value,                 \* this.value
  error,                 \* this.error
  touched,               \* this.touched
  deferFieldCalculation, \* this.deferFieldCalculation
  valueType,             \* this.valueType
  dataValidator,         \* this.dataValidator: id of a validator, 0 for undefined
  oldDataValidator,      \* this.#oldDataValidator
  autorunAlive,          \* the setValidator autorun has not been disposed
  reactionAlive,         \* the reaction has not been disposed
  reactionData,          \* the snapshot the reaction's selector last produced
  timers,                \* callbacks scheduled by init() with setTimeout, not yet run
  \* ---- the collaborators of the field ----
  prop,                  \* componentStore.props[valued]: [computed, value]
  initialData,           \* what getInitialData() returns
  calc,                  \* the value calculateValue(componentStore, valued) returns
  defaultValue,          \* model.defaultProps[valued]
  created,               \* number of validators createDataValidator has made
  disposeCalls,          \* dispose() calls each validator has received
  inflight,              \* validate(value) calls the validators have not answered yet
  validateCalls,         \* number of validate(value) calls handed to a validator
  \* ---- history ----
  disposerRuns,          \* how often each entry of #disposers has been run
  currentAtTeardown,     \* this.dataValidator when the effect last disposed an old validator
  reports,               \* the validate calls in the order they reported their error
  valueSrc,              \* which code wrote value last
  initCalled,            \* init() has been called
  deferredAtConstruction,\* the deferFieldCalculation the constructor was given
  last                   \* the last call: [op, arg, threw, sent, needValidate, autoValidate]

fvars == <<value, error, touched, deferFieldCalculation, valueType, dataValidator,
           oldDataValidator, autorunAlive, reactionAlive, reactionData, timers,
           prop, initialData, calc, defaultValue, created, disposeCalls,
           inflight, validateCalls, disposerRuns, currentAtTeardown, reports, valueSrc,
           initCalled, deferredAtConstruction, last>>

rvars == <<engine, schema, validators, rpc, idx, validationResults, returned,
           formDataA, pending, invoked, lastArgs, ruleResults, turnData>>

-----------------------------------------------------------------------------
(* Bounds of the resolver model *)
MaxRules == 3

-----------------------------------------------------------------------------
(* Maps (JS objects used as string-keyed records) are sets of <<key, value>> *)
EmptyMap == {}
MapKeys(m) == {p[1] : p \in m}
MapGet(m, k) == IF k \in MapKeys(m) THEN (CHOOSE p \in m : p[1] = k)[2] ELSE "undefined"
\* Object.assign(target, source) and args[key] = v: later writes win
MapAssign(target, source) ==
  {p \in target : p[1] \notin MapKeys(source)} \cup source

(* Rule settings the schemas are built from.  type "none" is an absent type, *)
(* validateWhen "none" an absent predicate; absent args are the empty map   *)
(* (rule.args ?? {} and Object.assign(args, undefined) read them as one).   *)
Rule(k, t, w, a) == [key |-> k, type |-> t, validateWhen |-> w, args |-> a]

RulePool ==
  { Rule("required",  "none",   "none",  EmptyMap),
    Rule("minLength", "none",   "none",  {<<"min", "2">>}),
    Rule("minLength", "none",   "whenA", {<<"message", "too short">>}),
    Rule("code",      "none",   "none",  EmptyMap),
    Rule("code",      "none",   "whenA", {<<"message", "bad code">>}),
    Rule("unknown",   "none",   "none",  EmptyMap),
    Rule("isEven",    "custom", "none",  {<<"message", "odd">>}),
    Rule("missing",   "custom", "none",  EmptyMap),
    Rule("required",  "other",  "none",  EmptyMap) }

(* FormViewerValidationRules: the two registries.  Each definition carries  *)
(* its declared parameters; a parameter without default has "undefined".    *)
Param(k, d) == [key |-> k, default |-> d]

InternalRegistry ==
  [ required  |-> [params |-> <<Param("message", "is required")>>],
    minLength |-> [params |-> <<Param("min", "1"), Param("message", "undefined")>>],
    code      |-> [params |-> <<Param("message", "undefined")>>] ]

CustomRegistry ==
  [ isEven |-> [params |-> <<Param("message", "undefined"), Param("strict", "no")>>] ]

-----------------------------------------------------------------------------
(* byPriority: the comparator looks at its second argument only *)
byPriority(a, b) ==
  IF b.key = "code" THEN -1
  ELSE IF b.key = "required" THEN 1
  ELSE 0

(* Array.prototype.sort.  byPriority is not a consistent comparator, so the *)
(* resulting order is implementation-defined (ECMA-262 23.1.3.30); the      *)
(* model lets the build be either of two engines' algorithms for short      *)
(* arrays.  Sequences are 1-based; the algorithms are written 0-based with  *)
(* At0.                                                                     *)
At0(s, i) == s[i + 1]

\* the element at 0-based index from moved to 0-based index to (to <= from)
MoveTo(s, from, to) ==
  SubSeq(s, 1, to) \o <<At0(s, from)>> \o SubSeq(s, to + 1, from)
    \o SubSeq(s, from + 2, Len(s))

Reverse(s) == [i \in 1..Len(s) |-> s[Len(s) + 1 - i]]

\* V8 (array-sort.tq) CountAndMakeRun: length of the initial run
RECURSIVE V8RunLength(_, _, _)
V8RunLength(s, i, isDescending) ==
  IF i >= Len(s) THEN i
  ELSE LET order == byPriority(At0(s, i), At0(s, i - 1))
       IN IF (isDescending /\ order >= 0) \/ (~isDescending /\ order < 0)
          THEN i
          ELSE V8RunLength(s, i + 1, isDescending)

\* V8 BinaryInsertionSort: the binary search of the slot of pivot in [left, right)
RECURSIVE V8Search(_, _, _, _)
V8Search(s, pivot, left, right) ==
  IF left >= right THEN left
  ELSE LET mid == left + ((right - left) \div 2)
       IN IF byPriority(pivot, At0(s, mid)) < 0
          THEN V8Search(s, pivot, left, mid)
          ELSE V8Search(s, pivot, mid + 1, right)

RECURSIVE V8Insert(_, _)
V8Insert(s, start) ==
  IF start >= Len(s) THEN s
  ELSE V8Insert(MoveTo(s, start, V8Search(s, At0(s, start), 0, start)), start + 1)

V8Sort(s) ==
  IF Len(s) < 2 THEN s
  ELSE LET isDescending == byPriority(At0(s, 1), At0(s, 0)) < 0
           run == V8RunLength(s, 2, isDescending)
           made == IF isDescending
                   THEN Reverse(SubSeq(s, 1, run)) \o SubSeq(s, run + 1, Len(s))
                   ELSE s
       IN V8Insert(made, run)

\* SpiderMonkey (Sorting.js) InsertionSort: linear search from the right
RECURSIVE SMSearch(_, _, _)
SMSearch(s, item, j) ==
  IF j < 0 THEN 0
  ELSE IF byPriority(At0(s, j), item) <= 0 THEN j + 1
  ELSE SMSearch(s, item, j - 1)

RECURSIVE SMInsert(_, _)
SMInsert(s, i) ==
  IF i >= Len(s) THEN s
  ELSE SMInsert(MoveTo(s, i, SMSearch(s, At0(s, i), i - 1)), i + 1)

SMSort(s) == SMInsert(s, 1)

Engines == {"v8", "spidermonkey"}

SortByPriority(s, e) == IF e = "v8" THEN V8Sort(s) ELSE SMSort(s)

-----------------------------------------------------------------------------
(* parse(): the pipeline of resolved validators, "undefined" for a schema    *)
(* without rules, "threw" when the resolution throws.                        *)
HasRules(sch) == sch.present /\ Len(sch.validations) > 0

\* toValidator throws a TypeError when it reads validatorFactory of the
\* undefined entry validationRules.internal[rule.key]
toValidatorThrows(rule) ==
  rule.type = "none" /\ rule.key \notin DOMAIN InternalRegistry

\* toValidator for one rule it does not throw on; params <<>> are absent params
toValidator(rule) ==
  IF rule.type = "none"
  THEN [settings |-> rule, validator |-> "builtin",
        params |-> InternalRegistry[rule.key].params]
  ELSE IF rule.type = "custom" /\ rule.key \in DOMAIN CustomRegistry
       THEN [settings |-> rule, validator |-> "custom",
             params |-> CustomRegistry[rule.key].params]
       ELSE [settings |-> rule, validator |-> "noOp", params |-> <<>>]

parse(sch, e) ==
  IF ~HasRules(sch) THEN [state |-> "undefined", list |-> <<>>]
  ELSE LET rules == SortByPriority(sch.validations, e)
       IN IF \E i \in 1..Len(rules) : toValidatorThrows(rules[i])
          THEN [state |-> "threw", list |-> <<>>]
          ELSE [state |-> "list",
                list |-> [i \in 1..Len(rules) |-> toValidator(rules[i])]]

(* needValidate(validateWhen, formData) of utils/needValidate: a rule       *)
(* without validateWhen is always due, otherwise the predicate decides.     *)
needValidateRule(when, a) == IF when = "none" THEN TRUE ELSE a

(* args of one invocation: defaults of the declared parameters that have    *)
(* one, then the rule's explicit args laid over them                        *)
RECURSIVE ApplyDefaults(_, _)
ApplyDefaults(args, params) ==
  IF params = <<>> THEN args
  ELSE LET p == Head(params)
       IN ApplyDefaults(IF p.default # "undefined"
                        THEN MapAssign(args, {<<p.key, p.default>>})
                        ELSE args,
                        Tail(params))

\* mutant: the declared defaults laid over the explicit args
BuildArgs_DefaultsLast(v) ==
  MapAssign(v.settings.args, ApplyDefaults(EmptyMap, v.params))

BuildArgs(v) ==
  MapAssign(ApplyDefaults(EmptyMap, v.params),
            v.settings.args)

\* what validator(value, store, args, formData) may return
Outcomes(v) == IF v.validator = "noOp" THEN {"true"} ELSE {"true", "false", "text"}

\* the ValidationResult pushed for a rule result that is not exactly true
ResultOf(v, args, ruleResult) ==
  [settings |-> v.settings,
   message  |-> IF ruleResult = "text" THEN "validator text" ELSE MapGet(args, "message")]

Record(v, args, ruleResult) ==
  IF ruleResult # "true"
  THEN Append(validationResults, ResultOf(v, args, ruleResult))
  ELSE validationResults

-----------------------------------------------------------------------------
(* Schemas: every list of at most MaxRules distinct rules of the pool *)
RECURSIVE SeqsUpTo(_, _)
SeqsUpTo(S, n) ==
  IF n = 0 THEN {<<>>}
  ELSE LET shorter == SeqsUpTo(S, n - 1)
       IN shorter \cup
          {Append(s, x) : s \in {t \in shorter : Len(t) = n - 1},
                          x \in S}

Distinct(s) == \A i, j \in 1..Len(s) : i # j => s[i] # s[j]

Schemas ==
  {[present |-> FALSE, validations |-> <<>>]} \cup
  {[present |-> TRUE, validations |-> s] :
     s \in {t \in SeqsUpTo(RulePool, MaxRules) : Distinct(t)}}

InitResolver ==
  /\ engine \in Engines
  /\ schema \in Schemas
  /\ validators = [state |-> "none", list |-> <<>>]
  /\ rpc = "start"
  /\ idx = 0
  /\ validationResults = <<>>
  /\ returned = [kind |-> "none", list |-> <<>>]
  /\ formDataA \in BOOLEAN
  /\ pending = "none"
  /\ invoked = <<>>
  /\ lastArgs = <<>>
  /\ ruleResults = <<>>
  /\ turnData = <<>>

\* validatorsResolver(validationRules, schema): parse once, return the function
Resolve ==
  /\ rpc = "start"
  /\ validators' = parse(schema, engine)
  /\ rpc' = IF parse(schema, engine).state = "threw" THEN "threw" ELSE "resolved"
  /\ UNCHANGED fvars
  /\ UNCHANGED <<engine, schema, idx, validationResults, returned, formDataA,
                 pending, invoked, lastArgs, ruleResults, turnData>>

\* a call of the resolved function, up to the first rule
Call ==
  /\ rpc \in {"resolved", "returned"}
  /\ validationResults' = <<>>
  /\ invoked' = <<>>
  /\ lastArgs' = <<>>
  /\ ruleResults' = <<>>
  /\ turnData' = <<>>
  /\ IF validators.state = "undefined"
     THEN /\ rpc' = "returned"
          /\ returned' = [kind |-> "undefined", list |-> <<>>]
          /\ idx' = 0
     ELSE /\ rpc' = "running"
          /\ returned' = [kind |-> "none", list |-> <<>>]
          /\ idx' = 1
  /\ UNCHANGED fvars
  /\ UNCHANGED <<engine, schema, validators, formDataA, pending>>

\* one turn of the for-of loop whose rule is skipped by validateWhen
SkipRule ==
  /\ rpc = "running"
  /\ idx <= Len(validators.list)
  /\ ~needValidateRule(validators.list[idx].settings.validateWhen, formDataA)
  /\ idx' = idx + 1
  /\ turnData' = Append(turnData, formDataA)
  /\ UNCHANGED fvars
  /\ UNCHANGED <<engine, schema, validators, rpc, validationResults, returned,
                 formDataA, pending, invoked, lastArgs, ruleResults>>

\* mutant: the turn without the validateWhen check
RunRuleSync_NoWhen ==
  /\ rpc = "running"
  /\ idx <= Len(validators.list)
  /\ \E ruleResult \in Outcomes(validators.list[idx]) :
       /\ validationResults' =
            Record(validators.list[idx], BuildArgs(validators.list[idx]), ruleResult)
       /\ ruleResults' = Append(ruleResults, ruleResult)
  /\ invoked' = Append(invoked, idx)
  /\ lastArgs' = Append(lastArgs, BuildArgs(validators.list[idx]))
  /\ idx' = idx + 1
  /\ turnData' = Append(turnData, formDataA)
  /\ UNCHANGED fvars
  /\ UNCHANGED <<engine, schema, validators, rpc, returned, formDataA, pending>>

\* one turn whose validator answers synchronously
RunRuleSync ==
  /\ rpc = "running"
  /\ idx <= Len(validators.list)
  /\ needValidateRule(validators.list[idx].settings.validateWhen, formDataA)
  /\ \E ruleResult \in Outcomes(validators.list[idx]) :
       /\ validationResults' =
            Record(validators.list[idx], BuildArgs(validators.list[idx]), ruleResult)
       /\ ruleResults' = Append(ruleResults, ruleResult)
  /\ invoked' = Append(invoked, idx)
  /\ lastArgs' = Append(lastArgs, BuildArgs(validators.list[idx]))
  /\ idx' = idx + 1
  /\ turnData' = Append(turnData, formDataA)
  /\ UNCHANGED fvars
  /\ UNCHANGED <<engine, schema, validators, rpc, returned, formDataA, pending>>

\* mutant: the promise is not awaited, the loop goes on to the next rule
RunRuleAsync_NoAwait ==
  /\ rpc = "running"
  /\ idx <= Len(validators.list)
  /\ needValidateRule(validators.list[idx].settings.validateWhen, formDataA)
  /\ validators.list[idx].validator # "noOp"
  /\ \E ruleResult \in Outcomes(validators.list[idx]) : pending' = ruleResult
  /\ invoked' = Append(invoked, idx)
  /\ lastArgs' = Append(lastArgs, BuildArgs(validators.list[idx]))
  /\ idx' = idx + 1
  /\ turnData' = Append(turnData, formDataA)
  /\ UNCHANGED fvars
  /\ UNCHANGED <<engine, schema, validators, rpc, validationResults, returned,
                 formDataA, ruleResults>>

\* one turn whose validator returns a promise: the function suspends at await
RunRuleAsync ==
  /\ rpc = "running"
  /\ idx <= Len(validators.list)
  /\ needValidateRule(validators.list[idx].settings.validateWhen, formDataA)
  /\ validators.list[idx].validator # "noOp"
  /\ \E ruleResult \in Outcomes(validators.list[idx]) : pending' = ruleResult
  /\ invoked' = Append(invoked, idx)
  /\ lastArgs' = Append(lastArgs, BuildArgs(validators.list[idx]))
  /\ rpc' = "awaiting"
  /\ turnData' = Append(turnData, formDataA)
  /\ UNCHANGED fvars
  /\ UNCHANGED <<engine, schema, validators, idx, validationResults, returned,
                 formDataA, ruleResults>>

\* the awaited promise resolves and the loop goes on
Settle ==
  /\ rpc = "awaiting"
  /\ validationResults' = Record(validators.list[idx], lastArgs[Len(lastArgs)], pending)
  /\ ruleResults' = Append(ruleResults, pending)
  /\ pending' = "none"
  /\ idx' = idx + 1
  /\ rpc' = "running"
  /\ UNCHANGED fvars
  /\ UNCHANGED <<engine, schema, validators, returned, formDataA, invoked,
                 lastArgs, turnData>>

\* mutant: the function returns as soon as one failure is recorded
Return_OnFirstFailure ==
  /\ rpc = "running"
  /\ idx > Len(validators.list) \/ validationResults # <<>>
  /\ returned' = [kind |-> "list", list |-> validationResults]
  /\ rpc' = "returned"
  /\ UNCHANGED fvars
  /\ UNCHANGED <<engine, schema, validators, idx, validationResults, formDataA,
                 pending, invoked, lastArgs, ruleResults, turnData>>

\* the loop is over: return validationResults
Return ==
  /\ rpc = "running"
  /\ idx > Len(validators.list)
  /\ returned' = [kind |-> "list", list |-> validationResults]
  /\ rpc' = "returned"
  /\ UNCHANGED fvars
  /\ UNCHANGED <<engine, schema, validators, idx, validationResults, formDataA,
                 pending, invoked, lastArgs, ruleResults, turnData>>

\* the form data changes while no synchronous code of the resolver runs
ChangeFormData ==
  /\ rpc \in {"awaiting", "returned"}
  /\ formDataA' = ~formDataA
  /\ UNCHANGED fvars
  /\ UNCHANGED <<engine, schema, validators, rpc, idx, validationResults,
                 returned, pending, invoked, lastArgs, ruleResults, turnData>>

vars == <<rvars, fvars>>

-----------------------------------------------------------------------------
(*                              SimpleField                                *)
-----------------------------------------------------------------------------
(* Bounds of the field model *)
MaxValidators == 3
MaxTimers == 1
MaxDisposes == 2
MaxCalls == 2

(* JavaScript values: a type tag, a payload and, for objects, the identity  *)
(* of the object (0 for primitives).  = on two values is Object.is.         *)
U == [t |-> "undefined", v |-> "", ref |-> 0]
Null == [t |-> "null", v |-> "", ref |-> 0]
Num(d) == [t |-> "number", v |-> d, ref |-> 0]
Str(d) == [t |-> "string", v |-> d, ref |-> 0]
Obj(d, r) == [t |-> "object", v |-> d, ref |-> r]

\* a ?? b
Coalesce(a, b) == IF a.t \in {"undefined", "null"} THEN b ELSE a

\* typeof e
TypeOf(e) == IF e.t = "null" THEN "object" ELSE e.t

(* autoConvertField(value, valueType): the raw input coerced to the field's *)
(* value type; a string of digits becomes the number, a number its text.    *)
autoConvertField(x, type) ==
  IF type = "number" /\ x.t = "string" THEN Num(x.v)
  ELSE IF type = "string" /\ x.t = "number" THEN Str(x.v)
  ELSE x

(* The values the collaborators hand to the field *)
DataVals == {U, Num("1")}
PropVals == {U, Num("2")}
DefaultVals == {U, Num("3")}
CalcVals == {Num("1"), Num("4")}
\* two evaluations of a formula that yields an array: equal content, two objects
CalcObjects == {Obj("[7]", 1), Obj("[7]", 2)}
RawInputs == {U, Str("5"), Num("5")}
ErrorInputs == {U, Null, Str("e1"), Num("42")}
ValueTypes == {"number", "string"}
AutoValidates == {"true", "false", "undefined"}

(* The derived properties (getters made computed by makeAutoObservable) *)
isComputed == prop.computed
initialValue == Coalesce(prop.value, defaultValue)
initialDataValue == Coalesce(initialData, initialValue)
\* mutant: the getter without its deferFieldCalculation guard
computedValue_NoDefer == calc

computedValue == IF deferFieldCalculation THEN initialDataValue ELSE calc

\* where the value (isComputed ? computedValue : initialDataValue) comes from
DerivedSrc == IF isComputed /\ ~deferFieldCalculation THEN "formula" ELSE "initialData"

\* the selector of the reaction
reactionSelector ==
  [isComputed |-> isComputed, computedValue |-> computedValue,
   initialDataValue |-> initialDataValue]

(* The reaction of the constructor, run by MobX at the end of the action    *)
(* that changed an observable: v and src are value and its origin as the    *)
(* action's own code leaves them.  The selector returns a fresh object, so  *)
(* the handler runs whenever one of the three computed values it read has   *)
(* changed.  A disposed reaction does nothing.                              *)
reactionFires == reactionAlive /\ reactionSelector' # reactionData

reaction(v, src) ==
  /\ reactionData' = IF reactionFires THEN reactionSelector' ELSE reactionData
  /\ value' = IF reactionFires
              THEN (IF isComputed' THEN computedValue' ELSE initialDataValue')
              ELSE v
  /\ valueSrc' = IF reactionFires THEN DerivedSrc' ELSE src

(* The setValidator autorun: makes a new validator, assigns it, then        *)
(* disposes the previous one inside untracked().                            *)
DisposeValidator(calls, id) ==
  IF id = 0 THEN calls ELSE [calls EXCEPT ![id] = @ + 1]

\* mutant: the previous validator disposed before the new one is assigned
setValidator_TeardownFirst ==
  /\ created' = created + 1
  /\ disposeCalls' = DisposeValidator(disposeCalls, oldDataValidator)
  /\ currentAtTeardown' = IF oldDataValidator = 0 THEN currentAtTeardown
                          ELSE dataValidator
  /\ dataValidator' = created + 1
  /\ oldDataValidator' = created + 1

setValidator ==
  /\ created' = created + 1
  /\ dataValidator' = created + 1
  /\ disposeCalls' = DisposeValidator(disposeCalls, oldDataValidator)
  /\ currentAtTeardown' = IF oldDataValidator = 0 THEN currentAtTeardown
                          ELSE dataValidator'
  /\ oldDataValidator' = created + 1

\* a list a call was given or returned: kind "undefined" stands for no list
NoList == [kind |-> "undefined", list |-> <<>>]

(* The record of a call.  needValidate (needRender(componentStore,          *)
(* dataRoot)) and componentStore.schema?.autoValidate are read from the     *)
(* collaborators by the call; the record keeps what the call read.          *)
Called(op, arg, threw, sent) ==
  [op |-> op, arg |-> arg, threw |-> threw, sent |-> sent,
   needValidate |-> TRUE, autoValidate |-> "undefined",
   event |-> U, given |-> NoList, result |-> NoList]

(* The state the constructor leaves *)
InitField ==
  /\ deferFieldCalculation \in BOOLEAN
  /\ valueType \in ValueTypes
  /\ prop \in [computed : BOOLEAN, value : PropVals]
  /\ initialData \in DataVals
  /\ calc \in CalcVals
  /\ defaultValue \in DefaultVals
  /\ error = U
  /\ touched = FALSE
  /\ value = IF isComputed THEN computedValue ELSE initialDataValue
  /\ valueSrc = DerivedSrc
  /\ created = 1
  /\ dataValidator = 1
  /\ oldDataValidator = 1
  /\ disposeCalls = [i \in 1..MaxValidators |-> 0]
  /\ autorunAlive = TRUE
  /\ reactionAlive = TRUE
  /\ reactionData = reactionSelector
  /\ timers = 0
  /\ disposerRuns = [i \in 1..3 |-> 0]
  /\ currentAtTeardown = 0
  /\ inflight = {}
  /\ validateCalls = 0
  /\ reports = <<>>
  /\ initCalled = FALSE
  /\ deferredAtConstruction = deferFieldCalculation
  /\ last = Called("constructor", U, FALSE, FALSE)

\* what no method of the field writes
envVars == <<prop, initialData, calc, defaultValue, deferredAtConstruction>>
validatorVars == <<valueType, dataValidator, oldDataValidator, created, disposeCalls,
                   currentAtTeardown>>
callVars == <<inflight, validateCalls, reports>>
lifeVars == <<autorunAlive, reactionAlive, disposerRuns>>

\* init()
init ==
  /\ isComputed => timers < MaxTimers
  /\ deferFieldCalculation' = FALSE
  /\ initCalled' = TRUE
  /\ timers' = IF isComputed THEN timers + 1 ELSE timers
  /\ UNCHANGED <<envVars, validatorVars, lifeVars, error, touched>>
  /\ IF isComputed
     THEN reaction(value, valueSrc)
     ELSE reaction(initialDataValue, "initialData")
  /\ UNCHANGED rvars
  /\ UNCHANGED callVars
  /\ last' = Called("init", U, FALSE, FALSE)

\* mutant: the scheduled assignment dropped once the field is disposed
initTimeout_CancelledByDispose ==
  /\ timers > 0
  /\ timers' = timers - 1
  /\ UNCHANGED <<envVars, validatorVars, lifeVars, error, touched,
                 deferFieldCalculation, initCalled>>
  /\ IF reactionAlive
     THEN reaction(computedValue, DerivedSrc)
     ELSE UNCHANGED <<reactionData, value, valueSrc>>
  /\ UNCHANGED rvars
  /\ UNCHANGED callVars
  /\ last' = Called("initTimeout", U, FALSE, FALSE)

\* the callback init() handed to setTimeout
initTimeout ==
  /\ timers > 0
  /\ timers' = timers - 1
  /\ UNCHANGED <<envVars, validatorVars, lifeVars, error, touched,
                 deferFieldCalculation, initCalled>>
  /\ reaction(computedValue, DerivedSrc)
  /\ UNCHANGED rvars
  /\ UNCHANGED callVars
  /\ last' = Called("initTimeout", U, FALSE, FALSE)

\* mutant: setValue storing the raw input, without autoConvertField
setValue_Raw ==
  \E x \in RawInputs, needValidate \in BOOLEAN, autoValidate \in AutoValidates :
    LET sends == needValidate /\ autoValidate # "false" /\ dataValidator # 0
    IN /\ error' = IF ~needValidate THEN U ELSE error
       /\ UNCHANGED <<envVars, validatorVars, lifeVars, touched, timers,
                      deferFieldCalculation, initCalled>>
       /\ reaction(x, "setValue")
       /\ UNCHANGED rvars
       /\ UNCHANGED callVars
       /\ last' = [Called("setValue", x, FALSE, sends) EXCEPT
                     !.needValidate = needValidate, !.autoValidate = autoValidate,
                     !.event = IF sends THEN x ELSE U]

\* mutant: setValue notifying the validator whatever autoValidate is
setValue_AlwaysNotify ==
  \E x \in RawInputs, needValidate \in BOOLEAN, autoValidate \in AutoValidates :
    LET sends == needValidate /\ dataValidator # 0
    IN /\ error' = IF ~needValidate THEN U ELSE error
       /\ UNCHANGED <<envVars, validatorVars, lifeVars, touched, timers,
                      deferFieldCalculation, initCalled>>
       /\ reaction(autoConvertField(x, valueType), "setValue")
       /\ UNCHANGED rvars
       /\ UNCHANGED callVars
       /\ last' = [Called("setValue", x, FALSE, sends) EXCEPT
                     !.needValidate = needValidate, !.autoValidate = autoValidate,
                     !.event = IF sends THEN autoConvertField(x, valueType) ELSE U]

\* setValue(value)
setValue ==
  \E x \in RawInputs, needValidate \in BOOLEAN, autoValidate \in AutoValidates :
    LET sends == needValidate /\ autoValidate # "false" /\ dataValidator # 0
    IN /\ error' = IF ~needValidate THEN U ELSE error
       /\ UNCHANGED <<envVars, validatorVars, lifeVars, touched, timers,
                      deferFieldCalculation, initCalled>>
       /\ reaction(autoConvertField(x, valueType), "setValue")
       /\ UNCHANGED rvars
       /\ UNCHANGED callVars
       /\ last' = [Called("setValue", x, FALSE, sends) EXCEPT
                     !.needValidate = needValidate, !.autoValidate = autoValidate,
                     !.event = IF sends THEN autoConvertField(x, valueType) ELSE U]

\* setTouched()
setTouched ==
  /\ touched' = TRUE
  /\ UNCHANGED <<envVars, validatorVars, lifeVars, error, timers,
                 deferFieldCalculation, initCalled>>
  /\ reaction(value, valueSrc)
  /\ UNCHANGED rvars
  /\ UNCHANGED callVars
  /\ last' = Called("setTouched", U, FALSE, FALSE)

(* The Data Validator the factory made.  validate(value) answers later by   *)
(* calling the error sink the constructor gave the factory; a value that is *)
(* missing is reported as an error, any other value as valid.               *)
ErrorFor(v) == IF v = U THEN Str("required") ELSE U

\* the ValidationResult lists getValidationResult(value) of a validator gives
ValidationResultOf(k, m) == [settings |-> k, message |-> m]

ValidatorResults ==
  { NoList,
    [kind |-> "list", list |-> <<>>],
    [kind |-> "list", list |-> <<ValidationResultOf("required", "m1"),
                                 ValidationResultOf("code", "m2")>>],
    [kind |-> "list", list |-> <<ValidationResultOf("code", "m2"),
                                 ValidationResultOf("required", "m1")>>] }

\* result?.map(({message}) => message)
Messages(g) ==
  IF g.kind = "undefined" THEN NoList
  ELSE [kind |-> "list", list |-> [i \in 1..Len(g.list) |-> g.list[i].message]]

\* mutant: validate() asking the validator whatever needValidate is
validate_Always ==
  \E needValidate \in BOOLEAN :
    /\ validateCalls < MaxCalls
    /\ error' = error
    /\ inflight' = inflight \cup {[call |-> validateCalls + 1, value |-> value,
                                   validator |-> dataValidator]}
    /\ validateCalls' = validateCalls + 1
    /\ UNCHANGED <<envVars, validatorVars, lifeVars, touched, timers,
                   deferFieldCalculation, initCalled, reports>>
    /\ reaction(value, valueSrc)
    /\ UNCHANGED rvars
    /\ last' = [Called("validate", U, FALSE, TRUE) EXCEPT
                  !.needValidate = needValidate, !.event = value]

\* validate(): up to the await; the validator answers in report
validate ==
  \E needValidate \in BOOLEAN :
    LET asks == needValidate /\ dataValidator # 0
    IN /\ asks => validateCalls < MaxCalls
       /\ error' = IF ~needValidate THEN U ELSE error
       /\ inflight' = IF asks
                      THEN inflight \cup {[call |-> validateCalls + 1, value |-> value,
                                           validator |-> dataValidator]}
                      ELSE inflight
       /\ validateCalls' = IF asks THEN validateCalls + 1 ELSE validateCalls
       /\ UNCHANGED <<envVars, validatorVars, lifeVars, touched, timers,
                      deferFieldCalculation, initCalled, reports>>
       /\ reaction(value, valueSrc)
       /\ UNCHANGED rvars
       /\ last' = [Called("validate", U, FALSE, asks) EXCEPT
                     !.needValidate = needValidate,
                     !.event = IF asks THEN value ELSE U]

\* mutant: the error sink dropping the report of a call that is not the latest
report_LatestOnly ==
  \E c \in inflight :
    /\ error' = IF c.call = validateCalls THEN ErrorFor(c.value) ELSE error
    /\ inflight' = inflight \ {c}
    /\ reports' = Append(reports, c.call)
    /\ UNCHANGED <<envVars, validatorVars, lifeVars, touched, timers,
                   deferFieldCalculation, initCalled, validateCalls>>
    /\ reaction(value, valueSrc)
    /\ UNCHANGED rvars
    /\ last' = Called("report", c.value, FALSE, FALSE)

\* a validator answers a validate(value) call: error => this.error = error
report ==
  \E c \in inflight :
    /\ error' = ErrorFor(c.value)
    /\ inflight' = inflight \ {c}
    /\ reports' = Append(reports, c.call)
    /\ UNCHANGED <<envVars, validatorVars, lifeVars, touched, timers,
                   deferFieldCalculation, initCalled, validateCalls>>
    /\ reaction(value, valueSrc)
    /\ UNCHANGED rvars
    /\ last' = Called("report", c.value, FALSE, FALSE)

\* getValidationResult(): given is what the validator's promise resolves to
getValidationResult ==
  \E needValidate \in BOOLEAN, given \in ValidatorResults :
    LET asks == needValidate /\ dataValidator # 0
    IN /\ ~asks => given = NoList
       /\ UNCHANGED <<envVars, validatorVars, lifeVars, error, touched, timers,
                      deferFieldCalculation, initCalled>>
       /\ reaction(value, valueSrc)
       /\ UNCHANGED rvars
       /\ UNCHANGED callVars
       /\ last' = [Called("getValidationResult", U, FALSE, asks) EXCEPT
                     !.needValidate = needValidate,
                     !.event = IF asks THEN value ELSE U,
                     !.given = given,
                     !.result = IF asks THEN Messages(given) ELSE NoList]

\* mutant: reset() restoring the initial data value
reset_ToInitialData ==
  /\ error' = U
  /\ UNCHANGED <<envVars, validatorVars, lifeVars, touched, timers,
                 deferFieldCalculation, initCalled>>
  /\ reaction(initialDataValue, "reset")
  /\ UNCHANGED rvars
  /\ UNCHANGED callVars
  /\ last' = Called("reset", U, FALSE, FALSE)

\* reset()
reset ==
  /\ error' = U
  /\ UNCHANGED <<envVars, validatorVars, lifeVars, touched, timers,
                 deferFieldCalculation, initCalled>>
  /\ reaction(Coalesce(initialValue, defaultValue), "reset")
  /\ UNCHANGED rvars
  /\ UNCHANGED callVars
  /\ last' = Called("reset", U, FALSE, FALSE)

\* mutant: clear() restoring initialValue instead of the model default
clear_ToInitialValue ==
  /\ touched' = FALSE
  /\ error' = U
  /\ UNCHANGED <<envVars, validatorVars, lifeVars, timers,
                 deferFieldCalculation, initCalled>>
  /\ reaction(initialValue, "clear")
  /\ UNCHANGED rvars
  /\ UNCHANGED callVars
  /\ last' = Called("clear", U, FALSE, FALSE)

\* clear()
clear ==
  /\ touched' = FALSE
  /\ error' = U
  /\ UNCHANGED <<envVars, validatorVars, lifeVars, timers,
                 deferFieldCalculation, initCalled>>
  /\ reaction(defaultValue, "clear")
  /\ UNCHANGED rvars
  /\ UNCHANGED callVars
  /\ last' = Called("clear", U, FALSE, FALSE)

\* mutant: setError storing whatever it is given
setError_Any ==
  \E e \in ErrorInputs :
    /\ error' = e
    /\ UNCHANGED <<envVars, validatorVars, lifeVars, touched, timers,
                   deferFieldCalculation, initCalled>>
    /\ reaction(value, valueSrc)
    /\ UNCHANGED rvars
    /\ UNCHANGED callVars
    /\ last' = Called("setError", e, FALSE, FALSE)

\* setError(error)
setError ==
  \E e \in ErrorInputs :
    /\ error' = IF TypeOf(e) = "string" THEN e
                ELSE IF TypeOf(e) = "undefined" \/ e = Null THEN U
                ELSE error
    /\ UNCHANGED <<envVars, validatorVars, lifeVars, touched, timers,
                   deferFieldCalculation, initCalled>>
    /\ reaction(value, valueSrc)
    /\ UNCHANGED rvars
    /\ UNCHANGED callVars
    /\ last' = Called("setError", e,
                      ~(TypeOf(e) = "string" \/ TypeOf(e) = "undefined" \/ e = Null),
                      FALSE)

\* mutant: dispose() without the disposer of the current validator
dispose_KeepValidator ==
  /\ disposerRuns[1] < MaxDisposes
  /\ autorunAlive' = FALSE
  /\ reactionAlive' = FALSE
  /\ disposerRuns' = [i \in 1..3 |-> disposerRuns[i] + 1]
  /\ UNCHANGED <<envVars, validatorVars, error,
                 touched, timers, deferFieldCalculation, initCalled,
                 reactionData, value, valueSrc>>
  /\ UNCHANGED rvars
  /\ UNCHANGED callVars
  /\ last' = Called("dispose", U, FALSE, FALSE)

\* dispose(): #disposers.forEach(dispose => dispose())
dispose ==
  /\ disposerRuns[1] < MaxDisposes
  /\ autorunAlive' = FALSE
  /\ disposeCalls' = DisposeValidator(disposeCalls, dataValidator)
  /\ reactionAlive' = FALSE
  /\ disposerRuns' = [i \in 1..3 |-> disposerRuns[i] + 1]
  /\ UNCHANGED <<envVars, valueType, dataValidator, oldDataValidator, created, error,
                 touched, timers, deferFieldCalculation, initCalled,
                 reactionData, value, valueSrc, currentAtTeardown>>
  /\ UNCHANGED rvars
  /\ UNCHANGED callVars
  /\ last' = Called("dispose", U, FALSE, FALSE)

(* The collaborators change what the field observes; MobX runs the effects  *)
(* that read it before the write returns.                                   *)
changeInitialData ==
  \E d \in DataVals \ {initialData} :
    /\ initialData' = d
    /\ UNCHANGED <<prop, calc, defaultValue, deferredAtConstruction, validatorVars,
                   lifeVars, error, touched, timers,
                   deferFieldCalculation, initCalled>>
    /\ reaction(value, valueSrc)
    /\ UNCHANGED rvars
    /\ UNCHANGED callVars
    /\ last' = Called("changeInitialData", U, FALSE, FALSE)

changeProp ==
  \E p \in [computed : BOOLEAN, value : PropVals] \ {prop} :
    /\ prop' = p
    /\ UNCHANGED <<initialData, calc, defaultValue, deferredAtConstruction,
                   validatorVars, lifeVars, error, touched, timers,
                   deferFieldCalculation, initCalled>>
    /\ reaction(value, valueSrc)
    /\ UNCHANGED rvars
    /\ UNCHANGED callVars
    /\ last' = Called("changeProp", U, FALSE, FALSE)

changeCalc ==
  \E c \in CalcVals \ {calc} :
    /\ calc' = c
    /\ UNCHANGED <<prop, initialData, defaultValue, deferredAtConstruction,
                   validatorVars, lifeVars, error, touched, timers,
                   deferFieldCalculation, initCalled>>
    /\ reaction(value, valueSrc)
    /\ UNCHANGED rvars
    /\ UNCHANGED callVars
    /\ last' = Called("changeCalc", U, FALSE, FALSE)

\* the formula is recomputed and yields an array
changeCalcToObject ==
  \E c \in CalcObjects \ {calc} :
    /\ calc' = c
    /\ UNCHANGED <<prop, initialData, defaultValue, deferredAtConstruction,
                   validatorVars, lifeVars, error, touched, timers,
                   deferFieldCalculation, initCalled>>
    /\ reaction(value, valueSrc)
    /\ UNCHANGED rvars
    /\ UNCHANGED callVars
    /\ last' = Called("changeCalc", U, FALSE, FALSE)

\* valueType is read by the setValidator autorun
changeValueType ==
  \E t \in ValueTypes \ {valueType} :
    /\ autorunAlive => created < MaxValidators
    /\ valueType' = t
    /\ IF autorunAlive
       THEN setValidator
       ELSE UNCHANGED <<dataValidator, oldDataValidator, created, disposeCalls,
                        currentAtTeardown>>
    /\ UNCHANGED <<envVars, lifeVars, error, touched, timers,
                   deferFieldCalculation, initCalled>>
    /\ reaction(value, valueSrc)
    /\ UNCHANGED rvars
    /\ UNCHANGED callVars
    /\ last' = Called("changeValueType", U, FALSE, FALSE)


-----------------------------------------------------------------------------
(* The specifications.  Each leaves the other component as constructed.     *)
QuietField ==
  /\ deferFieldCalculation = FALSE
  /\ valueType = "number"
  /\ prop = [computed |-> FALSE, value |-> U]
  /\ initialData = U
  /\ calc = Num("1")
  /\ defaultValue = U
  /\ error = U
  /\ touched = FALSE
  /\ value = U
  /\ valueSrc = "initialData"
  /\ created = 1
  /\ dataValidator = 1
  /\ oldDataValidator = 1
  /\ disposeCalls = [i \in 1..MaxValidators |-> 0]
  /\ autorunAlive = TRUE
  /\ reactionAlive = TRUE
  /\ reactionData = reactionSelector
  /\ timers = 0
  /\ disposerRuns = [i \in 1..3 |-> 0]
  /\ currentAtTeardown = 0
  /\ inflight = {}
  /\ validateCalls = 0
  /\ reports = <<>>
  /\ initCalled = FALSE
  /\ deferredAtConstruction = FALSE
  /\ last = Called("constructor", U, FALSE, FALSE)

QuietResolver ==
  /\ engine = "v8"
  /\ schema = [present |-> FALSE, validations |-> <<>>]
  /\ validators = [state |-> "none", list |-> <<>>]
  /\ rpc = "start"
  /\ idx = 0
  /\ validationResults = <<>>
  /\ returned = [kind |-> "none", list |-> <<>>]
  /\ formDataA = TRUE
  /\ pending = "none"
  /\ invoked = <<>>
  /\ lastArgs = <<>>
  /\ ruleResults = <<>>
  /\ turnData = <<>>

Init == InitField /\ QuietResolver

(* Spec: the calls on a live field and the changes of what it observes *)
Next ==
  \/ init
  \/ initTimeout
  \/ setValue
  \/ setTouched
  \/ reset
  \/ clear
  \/ setError
  \/ changeInitialData
  \/ changeProp
  \/ changeCalc
  \/ changeCalcToObject

Spec == Init /\ [][Next]_vars

InitR == InitResolver /\ QuietField

(* SpecResolver: one schema resolved, the resolved function called at will *)
NextResolver ==
  \/ Resolve
  \/ Call
  \/ SkipRule
  \/ RunRuleSync
  \/ RunRuleAsync
  \/ Settle
  \/ Return
  \/ ChangeFormData

SpecResolver == InitR /\ [][NextResolver]_vars

(* SpecLifecycle: the validator effect, the deferred assignment and the    *)
(* teardown                                                                 *)
NextLifecycle ==
  \/ changeValueType
  \/ dispose
  \/ init
  \/ initTimeout
  \/ changeInitialData
  \/ changeProp
  \/ changeCalc

SpecLifecycle == Init /\ [][NextLifecycle]_vars

(* SpecValidation: the calls that reach the Data Validator, its answers and *)
(* the teardown                                                             *)
NextValidation ==
  \/ setValue
  \/ validate
  \/ report
  \/ getValidationResult
  \/ changeValueType
  \/ dispose

\* a plain field: not computed, not deferred, no committed or default value
InitValidation ==
  /\ Init
  /\ prop = [computed |-> FALSE, value |-> U]
  /\ defaultValue = U
  /\ calc = Num("1")
  /\ ~deferFieldCalculation

SpecValidation == InitValidation /\ [][NextValidation]_vars

-----------------------------------------------------------------------------
(*                        Claims on the resolver                           *)
-----------------------------------------------------------------------------
Range(s) == {s[i] : i \in 1..Len(s)}
PipelineKeys == [i \in 1..Len(validators.list) |-> validators.list[i].settings.key]
KeyCount(k) == Cardinality({i \in 1..Len(schema.validations) : schema.validations[i].key = k})

\* the schema is a permutation of the rules keyed required, minLength, code
ThreeRuleSchema ==
  /\ Len(schema.validations) = 3
  /\ KeyCount("required") = 1 /\ KeyCount("minLength") = 1 /\ KeyCount("code") = 1

\* C1: for every permutation of the rules keyed required, minLength, code
\* the pipeline parse() builds is required, minLength, code; and whatever the
\* input order, the one rule keyed required is first and the one keyed code last.
C1_RequiredFirstCodeLast ==
  validators.state = "list" =>
    /\ ThreeRuleSchema => PipelineKeys = <<"required", "minLength", "code">>
    /\ KeyCount("required") = 1 => PipelineKeys[1] = "required"
    /\ KeyCount("code") = 1 => PipelineKeys[Len(PipelineKeys)] = "code"

\* a rule whose key is absent from the registry it addresses
Unresolvable(rule) ==
  \/ rule.type = "none" /\ rule.key \notin DOMAIN InternalRegistry
  \/ rule.type = "custom" /\ rule.key \notin DOMAIN CustomRegistry

\* C2: resolving never throws because of an unresolvable rule: every rule
\* whose key is absent from the registry it addresses gets the no-op
\* validator, and every rule of the schema is resolved and takes its turn.
C2_UnresolvableNeverThrows ==
  /\ rpc # "threw"
  /\ (rpc # "start" /\ HasRules(schema)) =>
       /\ validators.state = "list"
       /\ Len(validators.list) = Len(schema.validations)
       /\ \A i \in 1..Len(validators.list) :
            Unresolvable(validators.list[i].settings)
              => validators.list[i].validator = "noOp"
  /\ (returned.kind = "list") => Len(turnData) = Len(validators.list)

\* the turn i of the running evaluation found validateWhen false
WhenFalseAt(i) ==
  validators.list[i].settings.validateWhen = "whenA" /\ ~turnData[i]

\* C8: in one evaluation a rule whose validateWhen evaluates false against the
\* form data is skipped: its validator is not invoked and no ValidationResult
\* is recorded for it, while every rule after it that is due is still invoked
\* and the loop takes every turn.
C8_FalseWhenSkipsRule ==
  /\ \A i \in 1..Len(turnData) :
       IF WhenFalseAt(i)
       THEN /\ i \notin Range(invoked)
            /\ \A k \in 1..Len(validationResults) :
                 validationResults[k].settings # validators.list[i].settings
       ELSE i \in Range(invoked)
  /\ returned.kind = "list" => Len(turnData) = Len(validators.list)

\* C8 witness: a finished evaluation that skipped a built-in rule and then
\* invoked a later rule, which failed
C8_Witness ==
  /\ returned.kind = "list"
  /\ \E i, j \in 1..Len(turnData) :
       /\ i < j
       /\ WhenFalseAt(i)
       /\ validators.list[i].validator = "builtin"
       /\ j \in Range(invoked)
       /\ \E k \in 1..Len(returned.list) :
            returned.list[k].settings = validators.list[j].settings

\* the rule at turn i was due: its validateWhen was absent or true
DueAt(i) ==
  needValidateRule(validators.list[i].settings.validateWhen, turnData[i])

\* the due turns among the first n, in pipeline order
RECURSIVE DueUpTo(_)
DueUpTo(n) ==
  IF n = 0 THEN <<>>
  ELSE IF DueAt(n) THEN Append(DueUpTo(n - 1), n) ELSE DueUpTo(n - 1)

\* the settings of the rules, among the first k invoked, whose result is not true
RECURSIVE FailedRules(_)
FailedRules(k) ==
  IF k = 0 THEN <<>>
  ELSE IF ruleResults[k] # "true"
       THEN Append(FailedRules(k - 1), validators.list[invoked[k]].settings)
       ELSE FailedRules(k - 1)

\* C11: the resolved function never short-circuits: when it returns a list
\* every rule has taken its turn, every rule that was due has been invoked
\* (also after earlier failures), and the list holds exactly one entry per
\* invoked rule whose result is not exactly true, in pipeline order; it
\* returns undefined exactly when the schema is absent or without rules and a
\* list otherwise.
C11_NoShortCircuit ==
  /\ returned.kind = "list" =>
       /\ Len(turnData) = Len(validators.list)
       /\ invoked = DueUpTo(Len(validators.list))
       /\ Len(ruleResults) = Len(invoked)
       /\ [k \in 1..Len(returned.list) |-> returned.list[k].settings]
            = FailedRules(Len(invoked))
  /\ rpc = "returned" =>
       /\ returned.kind = "undefined" <=> ~HasRules(schema)
       /\ returned.kind = "list" <=> HasRules(schema)

\* C11 witness: an evaluation of three rules whose first rule failed, whose
\* second passed and whose third failed with a text, returned two entries
C11_Witness ==
  /\ returned.kind = "list"
  /\ ruleResults = <<"false", "true", "text">>
  /\ Len(returned.list) = 2
  /\ returned.list[1].settings = validators.list[1].settings
  /\ returned.list[2].settings = validators.list[3].settings

\* C12: within one evaluation the validators run one after the other in
\* pipeline order: a validator is invoked only when the result of every
\* validator invoked before it is known, and at most one invocation is in
\* flight, namely while the function is suspended at its await.
C12_Sequential ==
  /\ [](/\ Len(invoked) - Len(ruleResults) \in {0, 1}
        /\ (Len(invoked) = Len(ruleResults) + 1) <=> (rpc = "awaiting")
        /\ \A i, j \in 1..Len(invoked) : i < j => invoked[i] < invoked[j])
  /\ [][Len(invoked') > Len(invoked) => Len(ruleResults) = Len(invoked)]_vars

\* C12 witness: the first rule's promise is pending and the second rule,
\* which is due whatever the form data, has not been invoked
C12_Witness ==
  /\ rpc = "awaiting"
  /\ idx = 1
  /\ Len(validators.list) >= 2
  /\ validators.list[2].settings.validateWhen = "none"
  /\ invoked = <<1>>
  /\ ruleResults = <<>>

\* every key a parameter or an explicit argument of the model uses
ArgKeys ==
  UNION {MapKeys(r.args) : r \in RulePool}
    \cup UNION {{q.key : q \in Range(InternalRegistry[k].params)} :
                  k \in DOMAIN InternalRegistry}
    \cup UNION {{q.key : q \in Range(CustomRegistry[k].params)} :
                  k \in DOMAIN CustomRegistry}

\* the default the parameters declare for key, "undefined" if none does
DefaultOf(params, key) ==
  IF \E i \in 1..Len(params) : params[i].key = key
  THEN params[CHOOSE i \in 1..Len(params) : params[i].key = key].default
  ELSE "undefined"

\* C18: the args handed to each invoked validator hold, for every key, the
\* rule's explicit argument if it has one, else the declared default if one
\* is defined, and otherwise nothing; so nothing of another rule's args.
C18_ArgsDefaultsThenExplicit ==
  \A k \in 1..Len(lastArgs) :
    LET v == validators.list[invoked[k]]
        explicit == v.settings.args
    IN /\ Cardinality(lastArgs[k]) = Cardinality(MapKeys(lastArgs[k]))
       /\ \A key \in ArgKeys :
            IF key \in MapKeys(explicit)
            THEN <<key, MapGet(explicit, key)>> \in lastArgs[k]
            ELSE IF DefaultOf(v.params, key) # "undefined"
                 THEN <<key, DefaultOf(v.params, key)>> \in lastArgs[k]
                 ELSE key \notin MapKeys(lastArgs[k])

\* C18 witness: required got its default message, minLength its explicit min
\* over the default, and code, invoked after them, got neither
C18_Witness ==
  /\ Len(lastArgs) = 3
  /\ PipelineKeys = <<"required", "minLength", "code">>
  /\ lastArgs[1] = {<<"message", "is required">>}
  /\ lastArgs[2] = {<<"min", "2">>}
  /\ lastArgs[3] = EmptyMap

-----------------------------------------------------------------------------
(*                          Claims on the field                            *)
-----------------------------------------------------------------------------
\* C3: dispose() is idempotent: however often it is called, every registered
\* disposer has run at most once in total and no validator has had its
\* dispose() called twice.
C3_DisposeIdempotent ==
  /\ \A i \in 1..3 : disposerRuns[i] <= 1
  /\ \A v \in 1..MaxValidators : disposeCalls[v] <= 1

\* C4: on a computed field constructed deferred, value becomes computedValue
\* when the assignment scheduled by init() runs, and between the return of
\* init() and that tick value has not been overwritten with the result of the
\* formula.
C4_ValueOnlyAtTick ==
  /\ (deferredAtConstruction /\ initCalled /\ timers > 0) => valueSrc # "formula"
  /\ last.op = "initTimeout" => value = computedValue

\* C5 as stated: a field constructed deferred has, in every state before
\* init(), value equal to the current initialDataValue and never the formula's
\* result.
C5_DeferredValueIsInitialData ==
  (deferredAtConstruction /\ ~initCalled) =>
    /\ value = initialDataValue
    /\ valueSrc # "formula"

\* C5 amended: before init(), value of a field constructed deferred is never
\* the formula's result, and it equals the current initialDataValue unless
\* setValue, reset or clear wrote it after the last derivation (constructor
\* or reaction).
C5_DeferredNeverComputed ==
  (deferredAtConstruction /\ ~initCalled) =>
    /\ valueSrc # "formula"
    /\ valueSrc = "initialData" => value = initialDataValue

\* C5 witness: a deferred computed field whose initial data changed before
\* init(), with a formula result that differs from the initial data
C5_Witness ==
  /\ deferredAtConstruction /\ ~initCalled
  /\ isComputed
  /\ last.op = "changeInitialData"
  /\ calc # initialDataValue
  /\ value = initialDataValue
  /\ value # U

C7_SetError ==
  /\ [](error.t \in {"undefined", "string"})
  /\ [][last'.op = "setError" =>
          LET e == last'.arg
          IN /\ TypeOf(e) = "string" => (error' = e /\ ~last'.threw)
             /\ e \in {U, Null} => (error' = U /\ ~last'.threw)
             /\ (TypeOf(e) # "string" /\ e \notin {U, Null})
                  => (last'.threw /\ error' = error)]_vars

\* C7 witness: setError(42) threw on a field whose error was a string
C7_Witness ==
  /\ last.op = "setError"
  /\ last.arg = Num("42")
  /\ last.threw
  /\ error = Str("e1")

\* C9: reset() leaves error undefined and value = initialValue ?? defaultValue,
\* uncoerced, sends no validation event and leaves touched as it was.
C9_Reset ==
  [][last'.op = "reset" =>
       /\ error' = U
       /\ value' = Coalesce(initialValue, defaultValue)
       /\ touched' = touched
       /\ ~last'.sent]_vars

\* C9 witness: reset() of a touched string field whose committed value is a
\* number and differs from the external initial data
C9_Witness ==
  /\ last.op = "reset"
  /\ touched
  /\ valueType = "string"
  /\ prop.value = Num("2")
  /\ initialData = Num("1")
  /\ value = Num("2")
  /\ error = U

\* C10: clear() leaves value = defaultValue (the model default, not the
\* committed property value, not the initial data), touched false, error
\* undefined.
C10_Clear ==
  last.op = "clear" => (value = defaultValue /\ touched = FALSE /\ error = U)

\* C10 witness: clear() where default, committed value and initial data differ
C10_Witness ==
  /\ last.op = "clear"
  /\ defaultValue = Num("3")
  /\ prop.value = Num("2")
  /\ initialData = Num("1")
  /\ value = Num("3")
  /\ ~touched
  /\ error = U

\* C13: each run of the validator effect creates one validator and assigns it
\* to dataValidator before it disposes the previous one, the disposal does not
\* run the effect again, and before dispose() dataValidator is a validator
\* whose dispose() has not been called.
C13_InstallBeforeTeardown ==
  /\ [](disposerRuns[1] = 0 =>
          /\ dataValidator \in 1..created
          /\ disposeCalls[dataValidator] = 0)
  /\ [][(last'.op = "changeValueType" /\ autorunAlive) =>
          /\ created' = created + 1
          /\ dataValidator' = created'
          /\ currentAtTeardown' = dataValidator'
          /\ disposeCalls' = [disposeCalls EXCEPT ![dataValidator] = @ + 1]]_vars

\* C13 witness: the effect has re-run twice on a live field: the third
\* validator is current and untouched, the first two are disposed
C13_Witness ==
  /\ disposerRuns[1] = 0
  /\ last.op = "changeValueType"
  /\ created = 3
  /\ dataValidator = 3
  /\ currentAtTeardown = 3
  /\ disposeCalls[1] = 1 /\ disposeCalls[2] = 1 /\ disposeCalls[3] = 0

\* C14: setValue(x) sends the coerced value to the validator exactly when
\* needValidate is true and autoValidate is not false; with needValidate false
\* it sets error to undefined and sends nothing; with needValidate true it
\* leaves error as it was when it returns, whether it sent the event or not.
C14_SetValueNotifies ==
  [][last'.op = "setValue" =>
       /\ last'.sent <=> (last'.needValidate /\ last'.autoValidate # "false")
       /\ last'.sent => last'.event = autoConvertField(last'.arg, valueType)
       /\ ~last'.needValidate => error' = U
       /\ last'.needValidate => error' = error
       /\ inflight' = inflight]_vars

\* C14 witness: setValue("5") on a number field with an error, needValidate
\* true and autoValidate false: nothing sent, the error kept
C14_Witness ==
  /\ last.op = "setValue"
  /\ last.arg = Str("5")
  /\ last.needValidate
  /\ last.autoValidate = "false"
  /\ ~last.sent
  /\ value = Num("5")
  /\ error = Str("e1")

\* C15: with needValidate false validate() sets error to undefined and
\* getValidationResult() returns undefined, and neither calls the validator;
\* with needValidate true validate() hands the field's current value to the
\* current validator and getValidationResult() returns the messages of the
\* validator's results in their order.
C15_ValidateOnlyWhenNeeded ==
  [][/\ last'.op = "validate" =>
          /\ ~last'.needValidate =>
                (error' = U /\ ~last'.sent /\ inflight' = inflight)
          /\ last'.needValidate =>
                /\ last'.sent
                /\ last'.event = value
                /\ error' = error
                /\ \E c \in inflight' \ inflight :
                     c.value = value /\ c.validator = dataValidator
     /\ last'.op = "getValidationResult" =>
          /\ ~last'.needValidate => (last'.result = NoList /\ ~last'.sent)
          /\ last'.needValidate =>
                /\ last'.sent
                /\ last'.event = value
                /\ last'.given.kind = "list" =>
                     /\ last'.result.kind = "list"
                     /\ Len(last'.result.list) = Len(last'.given.list)
                     /\ \A i \in 1..Len(last'.given.list) :
                          last'.result.list[i] = last'.given.list[i].message]_vars

\* C15 witness: validate() with needValidate true handed the value 5, which
\* setValue stored, to the validator the effect installed second
C15_Witness ==
  /\ last.op = "validate"
  /\ last.needValidate
  /\ last.event = Num("5")
  /\ value = Num("5")
  /\ dataValidator = 2
  /\ \E c \in inflight : c.value = Num("5") /\ c.validator = 2

\* C16: nothing cancels a validate() call: a call in flight leaves only by
\* reporting, whatever call or dispose() came in between, and each report
\* sets error to the verdict on the value that call was given, so the call
\* that reports last decides error even if it was started first.
C16_LastReportWins ==
  /\ [][~(inflight \subseteq inflight') => last'.op = "report"]_vars
  /\ [][last'.op = "report" =>
          /\ error' = ErrorFor(last'.arg)
          /\ \E c \in inflight : c.value = last'.arg /\ inflight' = inflight \ {c}]_vars

\* C16 witness: validate() on a missing value, then setValue(5) and a second
\* validate(); the second call reported first, dispose() ran, and the first
\* call reported last: error is its verdict though value is 5
C16_Witness ==
  /\ last.op = "report"
  /\ reports = <<2, 1>>
  /\ disposerRuns[1] = 1
  /\ value = Num("5")
  /\ last.arg = U
  /\ error = Str("required")

\* a value without its identity
Structure(x) == [t |-> x.t, v |-> x.v]

\* two snapshots of the reaction are structurally equal
SameSnapshot(a, b) ==
  /\ a.isComputed = b.isComputed
  /\ Structure(a.computedValue) = Structure(b.computedValue)
  /\ Structure(a.initialDataValue) = Structure(b.initialDataValue)

\* C17: the reaction's handler runs only when the snapshot {isComputed,
\* computedValue, initialDataValue} differs structurally from the previous
\* one: a change of what the field observes that leaves the three components
\* structurally equal leaves value as it was.
C17_HandlerOnlyOnStructuralChange ==
  /\ [][reactionFires => ~SameSnapshot(reactionSelector', reactionData)]_vars
  /\ [][(last'.op \in {"changeInitialData", "changeProp", "changeCalc"}
           /\ SameSnapshot(reactionSelector', reactionData)) => value' = value]_vars

\* C19: before dispose() every validator the factory made except the current
\* one has had dispose() called once and the current one never; after one
\* dispose() every validator made has had it called exactly once; and once
\* dispose() has run no validator is made or installed any more.
C19_EveryValidatorDisposedOnce ==
  /\ [](/\ disposerRuns[1] = 0 =>
             \A v \in 1..created :
               disposeCalls[v] = IF v = dataValidator THEN 0 ELSE 1
        /\ disposerRuns[1] = 1 => \A v \in 1..created : disposeCalls[v] = 1
        /\ \A v \in (created + 1)..MaxValidators : disposeCalls[v] = 0)
  /\ [][disposerRuns[1] >= 1 =>
          (created' = created /\ dataValidator' = dataValidator)]_vars

\* C19 witness: two re-runs of the effect, one dispose(), then a change of
\* valueType: three validators made, each disposed once, none made since
C19_Witness ==
  /\ disposerRuns[1] = 1
  /\ last.op = "changeValueType"
  /\ created = 3
  /\ \A v \in 1..3 : disposeCalls[v] = 1

\* C20: after dispose() a change of isComputed, of the formula's result or of
\* the external initial data leaves value as it was, dispose() itself leaves
\* value and the scheduled assignment alone, and the assignment init()
\* scheduled sets value to computedValue when it runs, disposed or not.
C20_DisposeKeepsTimer ==
  /\ [][(~reactionAlive
           /\ last'.op \in {"changeInitialData", "changeProp", "changeCalc"})
          => value' = value]_vars
  /\ [][last'.op = "dispose" => (timers' = timers /\ value' = value)]_vars
  /\ [][last'.op = "initTimeout" => value' = computedValue']_vars

\* C20 witness: init() on a computed field, dispose(), a change of the
\* formula's result that the dead reaction did not see, then the tick: value
\* is the new result
C20_Witness ==
  /\ last.op = "initTimeout"
  /\ ~reactionAlive
  /\ isComputed
  /\ value = calc
  /\ reactionData.computedValue # calc
  /\ reactionData.isComputed

====
